---- MODULE Spec2Model ----
(***************************************************************************)
(* The streaming chat client of frontend/js/components/features/AIChat.js: *)
(* the React component state (messages, input, loading), the handleSend    *)
(* handler with its awaits (fetch, reader.read), the line framing of the   *)
(* response body, JSON.parse of each line and the setMessages updater that *)
(* folds the decoded events into the transcript.                          *)
(*                                                                         *)
(* Text is modelled at two levels.  The response body is a sequence of     *)
(* bytes; TextDecoder turns bytes into characters and the framing code     *)
(* works on sequences of characters.  A line is decoded by JSONparse from  *)
(* a compact wire alphabet (see JSONparse).  Message contents are strings. *)
(***************************************************************************)
EXTENDS Integers, Sequences, FiniteSets, TLC

\* ------------------------------------------------------------------ bounds
MaxSends == 2    \* handleSend invocations that may be accepted
MaxLines == 2    \* lines (or one unterminated fragment) the server writes, over all streams
MaxStreamLines == 4  \* the same, for the one stream of SpecStream
MaxChunk == 4    \* bytes returned by one reader.read()
MaxNow   == 1    \* values of Date.now() are 0..MaxNow
MaxBacklog == 1  \* the server writes when at most this many written bytes are unread

Sends == 1..MaxSends

\* ------------------------------------------------------------ wire alphabet
NL    == "\n"
SP    == " "
Lead  == "L"     \* first byte of a two-byte UTF-8 character
Trail == "T"     \* continuation byte
EAcute == "U+00E9"   \* the character encoded by <<Lead, Trail>>
Repl  == "U+FFFD"    \* emitted by TextDecoder for a malformed sequence

Absent == "<absent>"     \* a property an object does not have
NoId   == -1             \* messages created without an id (user, error)

ToolNames == {"A", "B"}

\* ------------------------------------------------------------ text helpers
RECURSIVE Str(_)
\* The JavaScript string made of a sequence of characters.
Str(cs) == IF cs = <<>> THEN "" ELSE Head(cs) \o Str(Tail(cs))

IsSpace(c) == c = SP

RECURSIVE TrimLeft(_)
TrimLeft(cs) == IF cs # <<>> /\ IsSpace(Head(cs)) THEN TrimLeft(Tail(cs)) ELSE cs

RECURSIVE TrimRight(_)
TrimRight(cs) ==
    IF cs # <<>> /\ IsSpace(cs[Len(cs)]) THEN TrimRight(SubSeq(cs, 1, Len(cs) - 1)) ELSE cs

\* String.prototype.trim
Trim(cs) == TrimRight(TrimLeft(cs))

RECURSIVE DecodeNoStream(_)
\* A decode without {stream: true}: a character cut by the end of the
\* chunk is replaced, nothing is kept for the next call.
DecodeNoStream(bs) ==
    IF bs = <<>> THEN [text |-> <<>>, pending |-> <<>>]
    ELSE IF Head(bs) = Lead /\ Len(bs) >= 2 /\ bs[2] = Trail THEN
        LET r == DecodeNoStream(SubSeq(bs, 3, Len(bs)))
        IN  [text |-> <<EAcute>> \o r.text, pending |-> <<>>]
    ELSE IF Head(bs) \in {Lead, Trail} THEN
        LET r == DecodeNoStream(Tail(bs))
        IN  [text |-> <<Repl>> \o r.text, pending |-> <<>>]
    ELSE
        LET r == DecodeNoStream(Tail(bs))
        IN  [text |-> <<Head(bs)>> \o r.text, pending |-> <<>>]

RECURSIVE DecodeBytes(_)
\* TextDecoder("utf-8").decode(bytes, {stream: true}) on the pending bytes
\* followed by the new ones: the decoded characters and the bytes of an
\* incomplete character kept for the next call.
DecodeBytes(bs) ==
    IF bs = <<>> THEN [text |-> <<>>, pending |-> <<>>]
    ELSE IF Head(bs) = Lead THEN
        IF Len(bs) = 1 THEN [text |-> <<>>, pending |-> <<Lead>>]
        ELSE IF bs[2] = Trail THEN
            LET r == DecodeBytes(SubSeq(bs, 3, Len(bs)))
            IN  [text |-> <<EAcute>> \o r.text, pending |-> r.pending]
        ELSE
            LET r == DecodeBytes(Tail(bs))
            IN  [text |-> <<Repl>> \o r.text, pending |-> r.pending]
    ELSE IF Head(bs) = Trail THEN
        LET r == DecodeBytes(Tail(bs))
        IN  [text |-> <<Repl>> \o r.text, pending |-> r.pending]
    ELSE
        LET r == DecodeBytes(Tail(bs))
        IN  [text |-> <<Head(bs)>> \o r.text, pending |-> r.pending]

RECURSIVE SplitNL(_)
\* String.prototype.split('\n'): always at least one piece, the last piece
\* is what follows the last terminator.
SplitNL(cs) ==
    IF cs = <<>> THEN << <<>> >>
    ELSE IF Head(cs) = NL THEN << <<>> >> \o SplitNL(Tail(cs))
    ELSE LET r == SplitNL(Tail(cs))
         IN  << <<Head(cs)>> \o Head(r) >> \o Tail(r)

\* ------------------------------------------------------------- JSON.parse
\* The values JSON.parse can return are modelled with one record shape:
\* js is the JavaScript type of the value, the other fields are the
\* properties the updater reads (Absent when the value has none).
JsValue(js, type, content, name, args, result) ==
    [js |-> js, type |-> type, content |-> content, name |-> name,
     args |-> args, result |-> result]

ContentEvent(c)    == JsValue("object", "content", c, Absent, Absent, Absent)
ToolStartEvent(n)  == JsValue("object", "tool_start", Absent, n, "args:" \o n, Absent)
ToolResultEvent(n) == JsValue("object", "tool_result", Absent, n, Absent, "result:" \o n)
UnknownEvent       == JsValue("object", "ping", Absent, Absent, Absent, Absent)
NumberValue        == JsValue("number", Absent, Absent, Absent, Absent, Absent)
NullValue          == JsValue("null", Absent, Absent, Absent, Absent, Absent)

ContentChars == {"a", "b", EAcute}

\* JSON.parse(line).  The wire alphabet abbreviates the JSON texts:
\*   c<k>  {"type":"content","content":"<k>"}      s<N>  {"type":"tool_start","name":"<N>","args":...}
\*   r<N>  {"type":"tool_result","name":"<N>","result":...}
\*   u     {"type":"ping"}       7  the number 7       n  null
\* surrounded by any white space.  Every other text is a SyntaxError.
JSONparse(line) ==
    LET t == Trim(line)
    IN  IF Len(t) = 2 /\ t[1] = "c" /\ t[2] \in ContentChars
            THEN [ok |-> TRUE, value |-> ContentEvent(t[2])]
        ELSE IF Len(t) = 2 /\ t[1] = "s" /\ t[2] \in ToolNames
            THEN [ok |-> TRUE, value |-> ToolStartEvent(t[2])]
        ELSE IF Len(t) = 2 /\ t[1] = "r" /\ t[2] \in ToolNames
            THEN [ok |-> TRUE, value |-> ToolResultEvent(t[2])]
        ELSE IF t = <<"u">> THEN [ok |-> TRUE, value |-> UnknownEvent]
        ELSE IF t = <<"7">> THEN [ok |-> TRUE, value |-> NumberValue]
        ELSE IF t = <<"n">> THEN [ok |-> TRUE, value |-> NullValue]
        ELSE [ok |-> FALSE, value |-> NullValue]

\* ------------------------------------------------------------- transcript
UserMsg(text) == [role |-> "user", content |-> text, id |-> NoId, tools |-> <<>>]
AssistantPlaceholder(id) == [role |-> "assistant", content |-> "", id |-> id, tools |-> <<>>]
ErrorMsg(message) ==
    [role |-> "assistant", content |-> "Error: " \o message, id |-> NoId, tools |-> <<>>]

\* A tool entry created without the args of the event.
RunningToolNoArgs(name, args) ==
    [name |-> name, status |-> "running", args |-> Absent, result |-> Absent]

\* The entry the tool_start branch appends.
RunningTool(name, args) ==
    [name |-> name, status |-> "running", args |-> args, result |-> Absent]

\* Array.prototype.findIndex(m => m.id === id): 0 stands for -1.
FindIndex(msgs, id) ==
    LET hits == {i \in 1..Len(msgs) : msgs[i].id = id}
    IN  IF hits = {} THEN 0 ELSE CHOOSE i \in hits : \A j \in hits : i <= j

\* A findIndex in the place of findLastIndex.
FindFirstRunning(tools, name) ==
    LET hits == {i \in 1..Len(tools) : tools[i].name = name /\ tools[i].status = "running"}
    IN  IF hits = {} THEN 0 ELSE CHOOSE i \in hits : \A j \in hits : i <= j

\* Array.prototype.findLastIndex(t => t.name === name && t.status === 'running')
FindLastRunning(tools, name) ==
    LET hits == {i \in 1..Len(tools) : tools[i].name = name /\ tools[i].status = "running"}
    IN  IF hits = {} THEN 0 ELSE CHOOSE i \in hits : \A j \in hits : i >= j

\* A tool_result branch that records a result it cannot match.
CompleteOrAddTool(tools, name, result) ==
    LET toolIdx == FindLastRunning(tools, name)
    IN  IF toolIdx # 0
            THEN [tools EXCEPT ![toolIdx] = [@ EXCEPT !.status = "completed", !.result = result]]
            ELSE Append(tools, [name |-> name, status |-> "completed", args |-> Absent,
                                result |-> result])

\* A tool_result branch that sets a completed entry back to running when
\* no running entry has the name.
CompleteOrReopenTool(tools, name, result) ==
    LET toolIdx == FindLastRunning(tools, name)
        done    == {i \in 1..Len(tools) : tools[i].name = name /\ tools[i].status = "completed"}
    IN  IF toolIdx # 0
            THEN [tools EXCEPT ![toolIdx] = [@ EXCEPT !.status = "completed", !.result = result]]
        ELSE IF done # {}
            THEN [tools EXCEPT ![CHOOSE i \in done : TRUE] = [@ EXCEPT !.status = "running"]]
        ELSE tools

\* A tool_result branch that completes every running entry of the name.
CompleteAllTools(tools, name, result) ==
    [k \in 1..Len(tools) |->
        IF tools[k].name = name /\ tools[k].status = "running"
            THEN [tools[k] EXCEPT !.status = "completed", !.result = result]
            ELSE tools[k]]

\* The tool_result branch of the updater.
CompleteTool(tools, name, result) ==
    LET toolIdx == FindLastRunning(tools, name)
    IN  IF toolIdx # 0
            THEN [tools EXCEPT ![toolIdx] = [@ EXCEPT !.status = "completed", !.result = result]]
            ELSE tools

\* An updater that reads event.type before it looks for the message.
ReducerReadsTypeFirst(prev, assistantMsgId, event) ==
    LET msgIndex == FindIndex(prev, assistantMsgId)
    IN  IF event.js = "null" THEN [msgs |-> prev, threw |-> TRUE]
        ELSE IF msgIndex = 0 THEN [msgs |-> prev, threw |-> FALSE]
        ELSE LET msg == prev[msgIndex]
                 next ==
                    IF event.type = "content"
                        THEN [msg EXCEPT !.content = @ \o event.content]
                    ELSE IF event.type = "tool_start"
                        THEN [msg EXCEPT !.tools = Append(@, RunningTool(event.name, event.args))]
                    ELSE IF event.type = "tool_result"
                        THEN [msg EXCEPT !.tools = CompleteTool(@, event.name, event.result)]
                    ELSE msg
             IN  [msgs |-> [prev EXCEPT ![msgIndex] = next], threw |-> FALSE]

\* The updater handed to setMessages for one decoded event:
\* threw is TRUE when evaluating it raises (event.type of null).
Reducer(prev, assistantMsgId, event) ==
    LET msgIndex == FindIndex(prev, assistantMsgId)
    IN  IF msgIndex = 0 THEN [msgs |-> prev, threw |-> FALSE]
        ELSE IF event.js = "null" THEN [msgs |-> prev, threw |-> TRUE]
        ELSE LET msg == prev[msgIndex]
                 next ==
                    IF event.type = "content"
                        THEN [msg EXCEPT !.content = @ \o event.content]
                    ELSE IF event.type = "tool_start"
                        THEN [msg EXCEPT !.tools = Append(@, RunningTool(event.name, event.args))]
                    ELSE IF event.type = "tool_result"
                        THEN [msg EXCEPT !.tools = CompleteTool(@, event.name, event.result)]
                    ELSE msg
             IN  [msgs |-> [prev EXCEPT ![msgIndex] = next], threw |-> FALSE]

\* A per-line loop whose catch reports nothing.
ProcessLineSilent(st, assistantMsgId, line, isMounted) ==
    IF Trim(line) = <<>> THEN st
    ELSE LET parsed == JSONparse(line)
         IN  IF ~parsed.ok THEN st
             ELSE IF ~isMounted \/ st.renderError THEN st
             ELSE LET r == Reducer(st.messages, assistantMsgId, parsed.value)
                  IN  IF r.threw THEN [st EXCEPT !.renderError = TRUE]
                      ELSE [st EXCEPT !.messages = r.msgs]

\* One iteration of the per-line loop on the state st = the pending React
\* state of messages, whether an updater in the queue throws when React
\* runs it, and the number of console.error calls of the inner catch.
\* React runs updaters in queue order while rendering, so an updater queued
\* behind one that throws is never applied; setMessages of an unmounted
\* component does nothing.
ProcessLine(st, assistantMsgId, line, isMounted) ==
    IF Trim(line) = <<>> THEN st
    ELSE LET parsed == JSONparse(line)
         IN  IF ~parsed.ok THEN [st EXCEPT !.errors = @ + 1]
             ELSE IF ~isMounted \/ st.renderError THEN st
             ELSE LET r == Reducer(st.messages, assistantMsgId, parsed.value)
                  IN  IF r.threw THEN [st EXCEPT !.renderError = TRUE]
                      ELSE [st EXCEPT !.messages = r.msgs]

RECURSIVE ProcessLines(_, _, _, _)
\* for (const line of lines) { ... }
ProcessLines(st, assistantMsgId, lines, isMounted) ==
    IF lines = <<>> THEN st
    ELSE ProcessLines(ProcessLine(st, assistantMsgId, Head(lines), isMounted),
                      assistantMsgId, Tail(lines), isMounted)

\* A loop body without lines.pop(): the piece after the last terminator is
\* processed with the complete lines.
FrameKeepsLast(fr, chunk) ==
    LET d     == DecodeBytes(fr.pending \o chunk)
        lines == SplitNL(fr.buffer \o d.text)
    IN  [lines   |-> lines,
         buffer  |-> <<>>,
         pending |-> d.pending]

\* The body of the while loop for one chunk: decode, split, keep the last
\* piece as the buffer, process the complete lines.
\* fr = [buffer, pending] is the framing state carried between chunks.
Frame(fr, chunk) ==
    LET d     == DecodeBytes(fr.pending \o chunk)
        lines == SplitNL(fr.buffer \o d.text)
    IN  [lines   |-> SubSeq(lines, 1, Len(lines) - 1),
         buffer  |-> lines[Len(lines)],
         pending |-> d.pending]

\* A payload made of the messages as they are in the transcript.
SanitizeWhole(msgs) == msgs

RECURSIVE SanitizeNonEmpty(_)
\* A payload that leaves out the messages whose content is empty.
SanitizeNonEmpty(msgs) ==
    IF msgs = <<>> THEN <<>>
    ELSE LET m == Head(msgs)
         IN  IF m.content # ""
                 THEN <<[role |-> m.role, content |-> m.content]>> \o SanitizeNonEmpty(Tail(msgs))
                 ELSE SanitizeNonEmpty(Tail(msgs))

\* sanitizedMessages: the roles sent upstream, each message reduced to
\* role and String(content ?? "").
RECURSIVE Sanitize(_)
Sanitize(msgs) ==
    IF msgs = <<>> THEN <<>>
    ELSE LET m == Head(msgs)
         IN  IF m.role \in {"user", "assistant", "system"}
                 THEN <<[role |-> m.role, content |-> m.content]>> \o Sanitize(Tail(msgs))
                 ELSE Sanitize(Tail(msgs))

\* ------------------------------------------------------------- environment
\* What the user can type into the input field.
Inputs == {<<>>, <<SP, SP>>, <<"h", "i">>}

\* The lines of a 2xx body, each followed by the terminator.
WireLines ==
    { <<"c", "a">>, <<"c", "b">>, <<"c", Lead, Trail>>,
      <<"s", "A">>, <<"s", "B">>, <<"r", "A">>, <<"r", "B">>,
      <<"u">>, <<"7">>, <<"n">>, <<"x">>, <<SP>> }

\* The lines of a body that carries tool events only, of one that carries
\* text, damaged lines and keep-alive lines only, and of one that mixes
\* text, one tool, a damaged line and null.
ToolLines  == { <<"s", "A">>, <<"s", "B">>, <<"r", "A">>, <<"r", "B">> }
TextLines  == { <<"c", "a">>, <<"c", "b">>, <<"c", Lead, Trail>>, <<"x">>, <<SP>> }
MixedLines == { <<"c", "a">>, <<"s", "A">>, <<"r", "A">>, <<"x">>, <<"n">> }

\* What a 2xx body can end with when its last line is not terminated.
WireFragments == { <<"c", "a">>, <<"c", Lead>>, <<"s", "A">> }

IsPrefix(f, l) == Len(f) <= Len(l) /\ SubSeq(l, 1, Len(f)) = f

\* The body of an error response: a JSON object without a type.
ErrorBody == { <<"u">> }

\* The answers to the stream-open request: status and whether
\* response.body is a stream (it is null for a 204).
Responses ==
    { [status |-> 200, body |-> TRUE],
      [status |-> 204, body |-> FALSE],
      [status |-> 401, body |-> TRUE],
      [status |-> 500, body |-> TRUE] }

FetchFailed   == "Failed to fetch"
NullBody      == "Cannot read properties of null (reading 'getReader')"
NetworkError  == "network error"

\* ------------------------------------------------------------------- state
VARIABLES
    messages,     \* React state: the transcript, with every queued update applied
    input,        \* React state: the text of the input field (characters)
    loading,      \* React state: the busy flag, with every queued update applied
    rMessages,    \* messages as captured by the handlers of the last committed render
    rLoading,     \* loading as captured by the handlers of the last committed render
    mounted,      \* the component is on the page
    renderError,  \* a queued updater of messages throws when React runs it
    now,          \* the value Date.now() returns
    quota,        \* lines the server may still write
    menu,         \* the lines the server writes in a 2xx body
    lastSubmit,   \* how the last call of handleSend began: "none", "accepted", "rejected"
    pc,           \* per call of handleSend: "unused", "fetch", "read", then how it
                  \* returned: "done" (end of stream) or "failed" (through catch)
    assistantMsgId, \* per call: the id given to its placeholder
    payload,      \* per call: the messages of the request body
    status,       \* per call: the status of the response, 0 before it arrives
    framer,       \* per call: [buffer, pending] of the read loop
    errors,       \* per call: console.error calls of the per-line catch
    net,          \* per call: bytes written by the server and not yet read
    closed,       \* per call: the server wrote the last bytes of the body
    sent,         \* per call: all bytes returned by reader.read() so far
    handed,       \* per call: all elements of lines the per-line loop has seen
    base,         \* per call: messages when getReader() returned
    token,        \* localStorage item 'token', NoToken when there is none
    apiPc,        \* the request made through apiClient: "idle", "pending", "resolved", "rejected"
    apiStatus     \* the status of the last response to it, 0 when there was none

vars == <<messages, input, loading, rMessages, rLoading, mounted, renderError, now,
          quota, menu, lastSubmit, pc, assistantMsgId, payload, status, framer, errors,
          net, closed, sent, handed, base, token, apiPc, apiStatus>>

reactVars  == <<messages, input, loading, rMessages, rLoading, mounted, renderError>>
callVars   == <<pc, assistantMsgId, payload, status>>
streamVars == <<framer, errors, net, closed, sent, handed, base>>
authVars   == <<token, apiPc, apiStatus>>

\* localStorage.getItem('token') when the item is not there.
NoToken == "<none>"

\* The token a successful login stores.
Tokens == {"tok"}

\* The page as it is loaded with a stored token and no request made yet.
SignedIn ==
    /\ token \in Tokens
    /\ apiPc = "idle"
    /\ apiStatus = 0

NoFramer == [buffer |-> <<>>, pending |-> <<>>]

Init ==
    /\ messages = <<>>
    /\ input = <<>>
    /\ loading = FALSE
    /\ rMessages = <<>>
    /\ rLoading = FALSE
    /\ mounted = TRUE
    /\ renderError = FALSE
    /\ now = 0
    /\ quota = MaxLines
    /\ menu = WireLines
    /\ lastSubmit = "none"
    /\ pc = [h \in Sends |-> "unused"]
    /\ assistantMsgId = [h \in Sends |-> NoId]
    /\ payload = [h \in Sends |-> <<>>]
    /\ status = [h \in Sends |-> 0]
    /\ framer = [h \in Sends |-> NoFramer]
    /\ errors = [h \in Sends |-> 0]
    /\ net = [h \in Sends |-> <<>>]
    /\ closed = [h \in Sends |-> FALSE]
    /\ sent = [h \in Sends |-> <<>>]
    /\ handed = [h \in Sends |-> <<>>]
    /\ base = [h \in Sends |-> <<>>]
    /\ SignedIn

\* An append that leaves the message in the transcript twice.
AppendedTwice(msgs, m) == IF mounted /\ ~renderError THEN Append(Append(msgs, m), m) ELSE msgs

\* setMessages(prev => [...prev, m]) as React will apply it.
Appended(msgs, m) == IF mounted /\ ~renderError THEN Append(msgs, m) ELSE msgs

\* setLoading(v) as React will apply it.
LoadingSet(v) == IF mounted THEN v ELSE loading

\* handleSend has returned: its local variables are gone.
Returned(h, how) ==
    /\ pc' = [pc EXCEPT ![h] = how]
    /\ assistantMsgId' = [assistantMsgId EXCEPT ![h] = NoId]
    /\ payload' = [payload EXCEPT ![h] = <<>>]
    /\ status' = [status EXCEPT ![h] = 0]
    /\ framer' = [framer EXCEPT ![h] = NoFramer]
    /\ errors' = [errors EXCEPT ![h] = 0]
    /\ net' = [net EXCEPT ![h] = <<>>]
    /\ closed' = [closed EXCEPT ![h] = FALSE]
    /\ sent' = [sent EXCEPT ![h] = <<>>]
    /\ handed' = [handed EXCEPT ![h] = <<>>]
    /\ base' = [base EXCEPT ![h] = <<>>]

\* ------------------------------------------------------------------ actions
\* onChange of the input field; the field is disabled while loading is
\* rendered true.
TypeInput(text) ==
    /\ mounted
    /\ ~rLoading
    /\ input' = text
    /\ UNCHANGED <<messages, loading, rMessages, rLoading, mounted, renderError, now, quota, menu, lastSubmit>>
    /\ UNCHANGED callVars
    /\ UNCHANGED streamVars
    /\ UNCHANGED authVars

\* Date.now() advances.  handleSend is its only reader and only the
\* equality of two readings is ever observed, so the clock is advanced
\* between two sends.
Tick ==
    /\ now < MaxNow
    /\ ~loading
    /\ \E h \in Sends : pc[h] \in {"done", "failed"}
    /\ now' = now + 1
    /\ UNCHANGED <<quota, menu, lastSubmit>>
    /\ UNCHANGED reactVars
    /\ UNCHANGED callVars
    /\ UNCHANGED streamVars
    /\ UNCHANGED authVars

\* A guard that tests the input without trimming it.
RejectsUntrimmed == input = <<>> \/ rLoading

\* The guard of handleSend, evaluated on what the handler captured.
Rejects == Trim(input) = <<>> \/ rLoading

\* handleSend returns at its guard.
RejectSend ==
    /\ lastSubmit' = "rejected"
    /\ UNCHANGED <<now, quota, menu>>
    /\ UNCHANGED reactVars
    /\ UNCHANGED callVars
    /\ UNCHANGED streamVars
    /\ UNCHANGED authVars

\* handleSend from the guard to its first await: the user message, the
\* placeholder, the payload and the call of fetch.  The updates made in
\* the submit event are rendered before the next event.
AcceptSend ==
    \E h \in Sends :
        /\ pc[h] = "unused"
        /\ \A g \in Sends : g < h => pc[g] # "unused"
        /\ LET userMsg == UserMsg(Str(input))
               newMsgs == Append(rMessages, userMsg)
               after   == IF renderError THEN messages
                          ELSE Append(newMsgs, AssistantPlaceholder(now))
           IN  /\ messages' = after
               /\ payload' = [payload EXCEPT ![h] = Sanitize(newMsgs)]
               /\ IF renderError
                    THEN /\ mounted' = FALSE
                         /\ UNCHANGED <<rMessages, rLoading>>
                    ELSE /\ rMessages' = after
                         /\ rLoading' = TRUE
                         /\ UNCHANGED mounted
        /\ input' = <<>>
        /\ loading' = TRUE
        /\ assistantMsgId' = [assistantMsgId EXCEPT ![h] = now]
        /\ pc' = [pc EXCEPT ![h] = "fetch"]
        /\ lastSubmit' = "accepted"
        /\ UNCHANGED <<renderError, now, quota, menu, status>>
        /\ UNCHANGED streamVars
        /\ UNCHANGED authVars

\* A handleSend without the early return.
HandleSendUnguarded ==
    /\ mounted
    /\ AcceptSend

\* The submit handler of the form.
HandleSend ==
    /\ mounted
    /\ IF Rejects THEN RejectSend ELSE AcceptSend

\* fetch rejects: the catch block appends the error message, the finally
\* block clears loading.
FetchReject(h) ==
    /\ pc[h] = "fetch"
    /\ messages' = Appended(messages, ErrorMsg(FetchFailed))
    /\ loading' = LoadingSet(FALSE)
    /\ Returned(h, "failed")
    /\ UNCHANGED <<input, rMessages, rLoading, mounted, renderError, now, quota, menu, lastSubmit>>
    /\ UNCHANGED authVars

\* fetch resolves with a response; response.body.getReader() throws when
\* the body is null, otherwise the read loop starts.
FetchResolve(h, resp) ==
    /\ pc[h] = "fetch"
    /\ IF resp.body
         THEN /\ pc' = [pc EXCEPT ![h] = "read"]
              /\ status' = [status EXCEPT ![h] = resp.status]
              /\ base' = [base EXCEPT ![h] = messages]
              /\ UNCHANGED <<messages, loading, assistantMsgId, payload>>
              /\ UNCHANGED <<framer, errors, net, closed, sent, handed>>
         ELSE /\ messages' = Appended(messages, ErrorMsg(NullBody))
              /\ loading' = LoadingSet(FALSE)
              /\ Returned(h, "failed")
    /\ UNCHANGED <<input, rMessages, rLoading, mounted, renderError, now, quota, menu, lastSubmit>>
    /\ UNCHANGED authVars

\* The server writes one more line of the body, or ends the body with an
\* unterminated fragment.
ServerWrite(h) ==
    /\ pc[h] = "read"
    /\ ~closed[h]
    /\ quota > 0
    /\ Len(net[h]) <= MaxBacklog
    /\ \/ \E line \in (IF status[h] = 200 THEN menu ELSE ErrorBody) :
            /\ net' = [net EXCEPT ![h] = @ \o line \o <<NL>>]
            /\ UNCHANGED closed
       \/ \E frag \in (IF status[h] = 200 THEN WireFragments ELSE ErrorBody) :
            /\ status[h] = 200 => \E l \in menu : IsPrefix(frag, l)
            /\ net' = [net EXCEPT ![h] = @ \o frag]
            /\ closed' = [closed EXCEPT ![h] = TRUE]
    /\ quota' = quota - 1
    /\ UNCHANGED <<now, menu, lastSubmit>>
    /\ UNCHANGED reactVars
    /\ UNCHANGED callVars
    /\ UNCHANGED <<framer, errors, sent, handed, base>>
    /\ UNCHANGED authVars

\* reader.read() resolves with a chunk of n bytes: one pass of the while
\* loop, up to the next await.
ReadChunk(h, n) ==
    /\ pc[h] = "read"
    /\ n <= Len(net[h])
    /\ LET chunk == SubSeq(net[h], 1, n)
           f     == Frame(framer[h], chunk)
           st    == ProcessLines([messages |-> messages, renderError |-> renderError,
                                  errors |-> errors[h]],
                                 assistantMsgId[h], f.lines, mounted)
       IN  /\ net' = [net EXCEPT ![h] = SubSeq(@, n + 1, Len(@))]
           /\ sent' = [sent EXCEPT ![h] = @ \o chunk]
           /\ framer' = [framer EXCEPT ![h] = [buffer |-> f.buffer, pending |-> f.pending]]
           /\ handed' = [handed EXCEPT ![h] = @ \o f.lines]
           /\ messages' = st.messages
           /\ renderError' = st.renderError
           /\ errors' = [errors EXCEPT ![h] = st.errors]
    /\ UNCHANGED <<input, loading, rMessages, rLoading, mounted, now, quota, menu, lastSubmit, closed, base>>
    /\ UNCHANGED callVars
    /\ UNCHANGED authVars

\* reader.read() resolves with done (the server has ended the body and
\* every byte it wrote was read): the loop is left and the finally block
\* clears loading.
ReadDone(h) ==
    /\ pc[h] = "read"
    /\ net[h] = <<>>
    /\ loading' = LoadingSet(FALSE)
    /\ Returned(h, "done")
    /\ UNCHANGED <<messages, input, rMessages, rLoading, mounted, renderError, now, quota, menu, lastSubmit>>
    /\ UNCHANGED authVars

\* reader.read() rejects: catch appends the error message, finally clears
\* loading.
ReadAbort(h) ==
    /\ pc[h] = "read"
    /\ messages' = Appended(messages, ErrorMsg(NetworkError))
    /\ loading' = LoadingSet(FALSE)
    /\ Returned(h, "failed")
    /\ UNCHANGED <<input, rMessages, rLoading, mounted, renderError, now, quota, menu, lastSubmit>>
    /\ UNCHANGED authVars

\* React renders the updates queued outside an event handler.  An updater
\* that throws makes the render fail; no error boundary is above the
\* component, so the root is unmounted.  The handlers read what a render
\* captured only when it captured loading = false (TypeInput is disabled
\* and handleSend returns otherwise), so of the renders that succeed the
\* model takes those that follow the end of a send.
Render ==
    /\ mounted
    /\ renderError \/ ~loading
    /\ IF renderError
         THEN /\ mounted' = FALSE
              /\ UNCHANGED <<rMessages, rLoading>>
         ELSE /\ rMessages' = messages
              /\ rLoading' = loading
              /\ UNCHANGED mounted
    /\ UNCHANGED <<messages, input, loading, renderError, now, quota, menu, lastSubmit>>
    /\ UNCHANGED callVars
    /\ UNCHANGED streamVars
    /\ UNCHANGED authVars

Next ==
    \/ \E text \in Inputs : TypeInput(text)
    \/ Tick
    \/ HandleSend
    \/ \E h \in Sends : FetchReject(h)
    \/ \E h \in Sends : \E resp \in Responses : FetchResolve(h, resp)
    \/ \E h \in Sends : ServerWrite(h)
    \/ \E h \in Sends : \E n \in 0..MaxChunk : ReadChunk(h, n)
    \/ \E h \in Sends : ReadDone(h)
    \/ \E h \in Sends : ReadAbort(h)
    \/ Render

Spec == Init /\ [][Next]_vars

\* One stream on its own: the state after the first send of "hi" was
\* accepted and answered with status 200, a longer body, and a server
\* that writes the lines of one of the three smaller catalogues.
InitStream ==
    /\ messages = <<UserMsg("hi"), AssistantPlaceholder(0)>>
    /\ input = <<>>
    /\ loading = TRUE
    /\ rMessages = messages
    /\ rLoading = TRUE
    /\ mounted = TRUE
    /\ renderError = FALSE
    /\ now = 0
    /\ quota = MaxStreamLines
    /\ menu \in {ToolLines, TextLines, MixedLines}
    /\ lastSubmit = "accepted"
    /\ pc = [h \in Sends |-> IF h = 1 THEN "read" ELSE "unused"]
    /\ assistantMsgId = [h \in Sends |-> IF h = 1 THEN 0 ELSE NoId]
    /\ payload = [h \in Sends |-> IF h = 1 THEN Sanitize(<<UserMsg("hi")>>) ELSE <<>>]
    /\ status = [h \in Sends |-> IF h = 1 THEN 200 ELSE 0]
    /\ framer = [h \in Sends |-> NoFramer]
    /\ errors = [h \in Sends |-> 0]
    /\ net = [h \in Sends |-> <<>>]
    /\ closed = [h \in Sends |-> FALSE]
    /\ sent = [h \in Sends |-> <<>>]
    /\ handed = [h \in Sends |-> <<>>]
    /\ base = [h \in Sends |-> IF h = 1 THEN messages ELSE <<>>]
    /\ SignedIn

NextStream ==
    \/ \E h \in Sends : ServerWrite(h)
    \/ \E h \in Sends : \E n \in 0..MaxChunk : ReadChunk(h, n)
    \/ \E h \in Sends : ReadDone(h)
    \/ \E h \in Sends : ReadAbort(h)
    \/ Render

SpecStream == InitStream /\ [][NextStream]_vars

\* The stream of a second send: the first send of "hi" ended with an empty
\* body, the clock was read again (it may have advanced or not), "hi" was
\* sent again and answered with status 200.
InitSecond ==
    /\ now \in 0..MaxNow
    /\ messages = <<UserMsg("hi"), AssistantPlaceholder(0),
                    UserMsg("hi"), AssistantPlaceholder(now)>>
    /\ input = <<>>
    /\ loading = TRUE
    /\ rMessages = messages
    /\ rLoading = TRUE
    /\ mounted = TRUE
    /\ renderError = FALSE
    /\ quota = MaxStreamLines
    /\ menu = MixedLines
    /\ lastSubmit = "accepted"
    /\ pc = [h \in Sends |-> IF h = 1 THEN "done" ELSE IF h = 2 THEN "read" ELSE "unused"]
    /\ assistantMsgId = [h \in Sends |-> IF h = 2 THEN now ELSE NoId]
    /\ payload = [h \in Sends |-> IF h = 2 THEN Sanitize(SubSeq(messages, 1, 3)) ELSE <<>>]
    /\ status = [h \in Sends |-> IF h = 2 THEN 200 ELSE 0]
    /\ framer = [h \in Sends |-> NoFramer]
    /\ errors = [h \in Sends |-> 0]
    /\ net = [h \in Sends |-> <<>>]
    /\ closed = [h \in Sends |-> FALSE]
    /\ sent = [h \in Sends |-> <<>>]
    /\ handed = [h \in Sends |-> <<>>]
    /\ base = [h \in Sends |-> IF h = 2 THEN messages ELSE <<>>]
    /\ SignedIn

SpecSecond == InitSecond /\ [][NextStream]_vars

\* ----------------------------------------------------- apiClient and token
\* AuthService.getToken
GetToken == token

\* AuthService.setToken
SetToken(t) == token' = t

\* AuthService.removeToken
RemoveToken == token' = NoToken

\* The statuses of the responses to a request made through apiClient;
\* 0 stands for a request that fails without a response.
ApiStatuses == {0, 200, 401, 403, 500}

\* axios settles a response outside 2xx, or no response, as an error.
IsError(st) == st \notin 200..299

\* An interceptor that removes the token after every error response.
RemovesOnAnyError(st) == IsError(st) /\ st # 0

\* The test of the response interceptor's error handler.
RemovesToken(st) == st # 0 /\ st = 401

\* window.location.reload(): the page and every component state on it are
\* gone; the application starts again and shows what the stored token
\* allows, the chat not being on the page.
Reload ==
    /\ messages' = <<>>
    /\ input' = <<>>
    /\ loading' = FALSE
    /\ rMessages' = <<>>
    /\ rLoading' = FALSE
    /\ mounted' = FALSE
    /\ renderError' = FALSE
    /\ lastSubmit' = "none"
    /\ pc' = [h \in Sends |-> "unused"]
    /\ assistantMsgId' = [h \in Sends |-> NoId]
    /\ payload' = [h \in Sends |-> <<>>]
    /\ status' = [h \in Sends |-> 0]
    /\ framer' = [h \in Sends |-> NoFramer]
    /\ errors' = [h \in Sends |-> 0]
    /\ net' = [h \in Sends |-> <<>>]
    /\ closed' = [h \in Sends |-> FALSE]
    /\ sent' = [h \in Sends |-> <<>>]
    /\ handed' = [h \in Sends |-> <<>>]
    /\ base' = [h \in Sends |-> <<>>]

\* A component calls apiClient.get or apiClient.post.
ApiRequest ==
    /\ apiPc # "pending"
    /\ apiPc' = "pending"
    /\ UNCHANGED <<token, apiStatus, now, quota, menu>>
    /\ UNCHANGED reactVars
    /\ UNCHANGED <<lastSubmit>>
    /\ UNCHANGED callVars
    /\ UNCHANGED streamVars

\* The request is answered and the response interceptor runs: a 2xx
\* response is handed on; on an error with status 401 the token is
\* removed and the page reloaded; every error is rejected to the caller.
ApiRespond(st) ==
    /\ apiPc = "pending"
    /\ apiStatus' = st
    /\ apiPc' = IF IsError(st) THEN "rejected" ELSE "resolved"
    /\ IF IsError(st) /\ RemovesToken(st)
         THEN /\ RemoveToken
              /\ Reload
         ELSE /\ UNCHANGED token
              /\ UNCHANGED reactVars
              /\ UNCHANGED <<lastSubmit>>
              /\ UNCHANGED callVars
              /\ UNCHANGED streamVars
    /\ UNCHANGED <<now, quota, menu>>

\* The login form succeeds and stores the token.
Login ==
    /\ token = NoToken
    /\ apiPc # "pending"
    /\ \E t \in Tokens : SetToken(t)
    /\ UNCHANGED <<apiPc, apiStatus, now, quota, menu>>
    /\ UNCHANGED reactVars
    /\ UNCHANGED <<lastSubmit>>
    /\ UNCHANGED callVars
    /\ UNCHANGED streamVars

\* The signed-in user opens the chat tab: a new AIChat is mounted.
OpenChat ==
    /\ GetToken # NoToken
    /\ ~mounted
    /\ ~renderError
    /\ mounted' = TRUE
    /\ UNCHANGED <<messages, input, loading, rMessages, rLoading, renderError>>
    /\ UNCHANGED <<now, quota, menu, lastSubmit>>
    /\ UNCHANGED callVars
    /\ UNCHANGED streamVars
    /\ UNCHANGED authVars

\* The chat and the requests of the other components side by side, the
\* chat's responses carrying no body lines.
NextApi ==
    \/ ApiRequest
    \/ \E st \in ApiStatuses : ApiRespond(st)
    \/ Login
    \/ OpenChat
    \/ \E text \in Inputs : TypeInput(text)
    \/ HandleSend
    \/ \E h \in Sends : FetchReject(h)
    \/ \E h \in Sends : \E resp \in Responses : FetchResolve(h, resp)
    \/ \E h \in Sends : ReadDone(h)
    \/ \E h \in Sends : ReadAbort(h)
    \/ Render

SpecApi == Init /\ [][NextApi]_vars

\* The transport answers the request, and reports the end of the body or
\* an error; React renders what is queued.
FairSpec ==
    /\ Spec
    /\ WF_vars(\E h \in Sends : FetchReject(h) \/ \E resp \in Responses : FetchResolve(h, resp))
    /\ WF_vars(\E h \in Sends : ReadDone(h) \/ ReadAbort(h))
    /\ WF_vars(Render)

\* ------------------------------------------------------------------ properties
\* The index in messages of the message the events of call h are applied to.
ActiveIdx(h) == FindIndex(messages, assistantMsgId[h])

RunningNamed(tools, n) ==
    {k \in 1..Len(tools) : tools[k].name = n /\ tools[k].status = "running"}

MaxOf(S) == CHOOSE i \in S : \A j \in S : i >= j

NamesOf(tools)    == [k \in 1..Len(tools) |-> tools[k].name]
StatusesOf(tools) == [k \in 1..Len(tools) |-> tools[k].status]

StartA  == <<"s", "A">>
StartB  == <<"s", "B">>
ResultA == <<"r", "A">>
ResultB == <<"r", "B">>

\* C1: a tool_result named N applied to the active assistant message
\* completes the entry with the highest index among the running entries
\* named N and leaves the status of every other entry as it was; after
\* tool_start(A), tool_start(B), tool_start(A), tool_result(A) the second A
\* is completed and the first A and B are running.
C1_LastRunningCompleted ==
    \A h \in Sends :
        (pc[h] = "read" /\ ActiveIdx(h) # 0) =>
            LET i     == ActiveIdx(h)
                tools == messages[i].tools
            IN  /\ \A n \in ToolNames :
                        LET run == RunningNamed(tools, n)
                            out == Reducer(messages, assistantMsgId[h], ToolResultEvent(n))
                        IN  run # {} =>
                                /\ ~out.threw
                                /\ Len(out.msgs[i].tools) = Len(tools)
                                /\ \A k \in 1..Len(tools) :
                                        out.msgs[i].tools[k].status =
                                            IF k = MaxOf(run) THEN "completed"
                                            ELSE tools[k].status
                /\ handed[h] = <<StartA, StartB, StartA, ResultA>> =>
                        /\ NamesOf(tools) = <<"A", "B", "A">>
                        /\ StatusesOf(tools) = <<"running", "running", "completed">>

\* The four lines of C1 were processed by the read loop.
C1_Witness == handed[1] = <<StartA, StartB, StartA, ResultA>>

\* C2: tool_result(X, r) applied when the active assistant message has no
\* running tool call named X leaves the transcript as it is: no tool call
\* is added, no status, result or content changes.
C2_DanglingResultNoOp ==
    \A h \in Sends :
        (pc[h] = "read" /\ ActiveIdx(h) # 0) =>
            /\ \A x \in ToolNames :
                    RunningNamed(messages[ActiveIdx(h)].tools, x) = {} =>
                        LET out == Reducer(messages, assistantMsgId[h], ToolResultEvent(x))
                        IN  ~out.threw /\ out.msgs = messages
            /\ (\A k \in 1..Len(handed[h]) : handed[h][k] \in {ResultA, ResultB}) =>
                    messages = base[h]

\* Two results were processed and no tool had been started.
C2_Witness == handed[1] = <<ResultA, ResultB>> /\ pc[1] = "read"

\* handleSend ran in this step.
SubmitStep ==
    \/ lastSubmit' # lastSubmit
    \/ \E h \in Sends : pc[h] = "unused" /\ pc'[h] # "unused"

\* C3: a send made while the input is empty or white space only, or while
\* the orchestrator is sending, changes nothing: no user message, no
\* placeholder, no request, the busy flag and everything else as before.
C3_RejectedSendChangesNothing ==
    [][ (SubmitStep /\ (Trim(input) = <<>> \/ loading))
            => UNCHANGED <<reactVars, callVars, streamVars, now, quota, menu>> ]_vars

\* A send was rejected while the first one was reading its stream.
C3_Witness == lastSubmit = "rejected" /\ loading /\ pc[1] = "read"

InFlight == {h \in Sends : pc[h] \in {"fetch", "read"}}

\* C4: at most one stream is open in every reachable state; loading
\* becomes true only in the step of an accepted send, which starts from
\* idle, and becomes false only when the call in flight returns.
C4_OneStreamAtATime ==
    /\ [](Cardinality(InFlight) <= 1)
    /\ [][ /\ (\E h \in Sends : pc[h] = "unused" /\ pc'[h] # "unused")
                => (~loading /\ loading' /\ InFlight = {})
           /\ (~loading /\ loading')
                => (\E h \in Sends : pc[h] = "unused" /\ pc'[h] = "fetch")
           /\ (loading /\ ~loading')
                => (\E h \in InFlight : pc'[h] \in {"done", "failed"}) ]_vars

\* A second send is reading its stream after a send was rejected.
C4_Witness == pc[2] = "read" /\ lastSubmit = "rejected"

\* The line is skipped or decodes as JSON.
Decodable(line) == Trim(line) = <<>> \/ JSONparse(line).ok

TextA   == <<"c", "a">>
TextB   == <<"c", "b">>
Garbage == <<"x">>

\* C5: a terminated line that is not valid JSON is discarded and the send
\* goes on: the transcript is what the same lines without the invalid ones
\* produce, and one diagnostic is recorded per invalid line.  After the
\* lines content "a", garbage, content "b" the content is "ab" and one
\* parse failure is recorded.
C5_ParseFailureIsolated ==
    \A h \in Sends :
        (pc[h] = "read" /\ ActiveIdx(h) # 0) =>
            LET good == SelectSeq(handed[h], Decodable)
                ref  == ProcessLines([messages |-> base[h], renderError |-> FALSE,
                                      errors |-> 0],
                                     assistantMsgId[h], good, TRUE)
            IN  /\ messages = ref.messages
                /\ renderError = ref.renderError
                /\ errors[h] = Len(handed[h]) - Len(good)
                /\ handed[h] = <<TextA, Garbage, TextB>> =>
                        /\ messages[ActiveIdx(h)].content = "ab"
                        /\ errors[h] = 1

\* The three lines of C5 were processed and the send is still reading.
C5_Witness == handed[1] = <<TextA, Garbage, TextB>> /\ pc[1] = "read"

\* The pieces of the whole text received so far, split on the terminator.
PiecesOf(h) == SplitNL(DecodeBytes(sent[h]).text)

\* C6: however the body is cut into chunks, the lines the read loop
\* processes are the pieces of the received text split on the terminator
\* without the last piece, which stays in the buffer; the end of the stream
\* processes nothing more.
C6_FramingIndependentOfChunks ==
    /\ [](\A h \in Sends :
            pc[h] = "read" =>
                /\ handed[h] = SubSeq(PiecesOf(h), 1, Len(PiecesOf(h)) - 1)
                /\ framer[h].buffer = PiecesOf(h)[Len(PiecesOf(h))])
    /\ [][ \A h \in Sends :
            (pc[h] = "read" /\ pc'[h] = "done")
                => (messages' = messages /\ renderError' = renderError) ]_vars

\* Two lines were processed, and the last chunk ended inside a line and
\* inside a character.
C6_Witness ==
    /\ Len(handed[1]) >= 2
    /\ framer[1].buffer # <<>>
    /\ framer[1].pending # <<>>

\* C7: the transcript, the pending render error and the diagnostics after
\* any sequence of chunks are those of the same bytes received as one
\* chunk: they depend on the bytes, not on the chunk boundaries.
C7_ResultIndependentOfChunks ==
    \A h \in Sends :
        pc[h] = "read" =>
            LET f   == Frame(NoFramer, sent[h])
                one == ProcessLines([messages |-> base[h], renderError |-> FALSE,
                                     errors |-> 0],
                                    assistantMsgId[h], f.lines, TRUE)
            IN  /\ messages = one.messages
                /\ renderError = one.renderError
                /\ errors[h] = one.errors
                /\ framer[h].buffer = f.buffer
                /\ framer[h].pending = f.pending

\* Text and a completed tool call were applied, and the last chunk ended
\* inside a line.
C7_Witness ==
    /\ pc[1] = "read"
    /\ messages[2].content = "a"
    /\ StatusesOf(messages[2].tools) = <<"completed">>
    /\ framer[1].buffer # <<>>

ErrorTexts == {FetchFailed, NullBody, NetworkError}

\* C8: a send whose request is answered with a status outside 200..299
\* returns with an assistant message "Error: <message>" appended to the
\* transcript and with the orchestrator idle.
C8_NonSuccessReported ==
    [][ \A h \in Sends :
            (pc[h] = "read" /\ status[h] \notin 200..299 /\ pc'[h] \in {"done", "failed"})
                => /\ \E t \in ErrorTexts : messages' = Append(messages, ErrorMsg(t))
                   /\ ~loading' ]_vars

\* C9: when fetch rejects, getReader throws or a read rejects, exactly one
\* message "Error: <message>" is appended as the last message, everything
\* applied before is kept, and the orchestrator is idle.
C9_FailureAppendsOneError ==
    [][ \A h \in Sends :
            (pc[h] \in {"fetch", "read"} /\ pc'[h] = "failed")
                => /\ \E t \in ErrorTexts : messages' = Append(messages, ErrorMsg(t))
                   /\ ~loading' ]_vars

\* C10: every accepted send is followed by a state in which the
\* orchestrator is idle and accepts a new send.
C10_SendReturnsToIdle ==
    \A h \in Sends :
        (pc[h] \in {"fetch", "read"}) ~> (mounted /\ ~loading /\ ~rLoading)

\* Role and content of each message, in order.
RoleContent(msgs) ==
    [k \in 1..Len(msgs) |-> [role |-> msgs[k].role, content |-> msgs[k].content]]

\* C11: the payload of an accepted send is, in transcript order, one entry
\* per message of the transcript before the send followed by the new user
\* message, each entry made of role and content only; the placeholder, ids
\* and tool calls are not sent.  A first send of "hi" sends one entry,
\* user "hi".
C11_PayloadIsRoleAndContent ==
    [][ \A h \in Sends :
            (pc[h] = "unused" /\ pc'[h] = "fetch") =>
                /\ payload'[h] = RoleContent(messages)
                                    \o <<[role |-> "user", content |-> Str(input)]>>
                /\ \A k \in 1..Len(payload'[h]) : DOMAIN payload'[h][k] = {"role", "content"}
                /\ Len(payload'[h]) = Len(messages') - 1
                /\ (messages = <<>> /\ input = <<"h", "i">>)
                        => payload'[h] = <<[role |-> "user", content |-> "hi"]>> ]_vars

\* A second send is waiting for its response; its payload carries the first
\* exchange, whose assistant message has content and a tool call.
C11_Witness ==
    /\ pc[2] = "fetch"
    /\ Len(payload[2]) = 3
    /\ payload[2][2] = [role |-> "assistant", content |-> "a"]
    /\ messages[2].tools # <<>>

\* The position of the placeholder that call h appended.
OwnIdx(h) == Len(base[h])

\* C12: a send whose stream is tool_start(A, args), tool_result(A, result),
\* content "a", each on a terminated line, ends with its own assistant
\* message holding exactly one tool call, A, completed, with those args and
\* that result, and the content "a"; the orchestrator is idle.
C12_ToolRunScenario ==
    [][ \A h \in Sends :
            (pc[h] = "read" /\ pc'[h] = "done" /\ handed[h] = <<StartA, ResultA, TextA>>) =>
                /\ messages'[OwnIdx(h)] =
                        [role |-> "assistant", content |-> "a", id |-> assistantMsgId[h],
                         tools |-> <<[name |-> "A", status |-> "completed",
                                      args |-> "args:A", result |-> "result:A"]>>]
                /\ ~loading' ]_vars

\* The line decodes to a value whose type is none of the three event types.
Unrecognized(line) ==
    /\ Trim(line) # <<>>
    /\ JSONparse(line).ok
    /\ JSONparse(line).value.type \notin {"content", "tool_start", "tool_result"}

Recognized(line) == ~Unrecognized(line)

\* C13: a terminated line that decodes to a value without a recognized
\* type (an object with another type, a number, null) causes no failure
\* and no change: the transcript, the pending render error and the
\* diagnostics are those of the same lines without such lines, so the
\* lines after it are processed as if it had not been there.
C13_UnknownValueIgnored ==
    \A h \in Sends :
        (pc[h] = "read" /\ ActiveIdx(h) # 0) =>
            LET known == SelectSeq(handed[h], Recognized)
                ref   == ProcessLines([messages |-> base[h], renderError |-> FALSE,
                                       errors |-> 0],
                                      assistantMsgId[h], known, TRUE)
            IN  /\ messages = ref.messages
                /\ renderError = ref.renderError
                /\ errors[h] = ref.errors

\* C14: in every step and for every tool call of every message, a completed
\* tool call stays exactly as it is, whatever tool_result arrives; a running
\* one has no result and either stays as it is or becomes completed with
\* the result of the event, nothing else changing; tool calls are never
\* removed, and a tool call added in the step (a step applies the events
\* of one chunk) is running without a result or completed with the result
\* of an event.
C14_ToolStatusMonotonic ==
    [][ \A i \in 1..Len(messages) :
            /\ i <= Len(messages')
            /\ LET old == messages[i].tools
                   new == messages'[i].tools
               IN  /\ Len(new) >= Len(old)
                   /\ \A k \in 1..Len(old) :
                        IF old[k].status = "completed"
                            THEN new[k] = old[k]
                            ELSE /\ old[k].status = "running"
                                 /\ old[k].result = Absent
                                 /\ \/ new[k] = old[k]
                                    \/ new[k] = [old[k] EXCEPT !.status = "completed",
                                                   !.result = ToolResultEvent(old[k].name).result]
                   /\ \A k \in (Len(old) + 1)..Len(new) :
                        \/ new[k].status = "running" /\ new[k].result = Absent
                        \/ /\ new[k].status = "completed"
                           /\ new[k].result = ToolResultEvent(new[k].name).result ]_vars

\* A second tool_result(A) was processed after the only tool call A had
\* been completed, and a new A was then started.
C14_Witness ==
    /\ handed[1] = <<StartA, ResultA, ResultA, StartA>>
    /\ StatusesOf(messages[2].tools) = <<"completed", "running">>
    /\ messages[2].tools[1].result = "result:A"

\* Message i is the placeholder of a call that has not returned.
Streaming(i) ==
    \E h \in Sends :
        \/ pc[h] = "fetch" /\ i = Len(messages)
        \/ pc[h] = "read" /\ i = OwnIdx(h)

\* C15: the transcript is append-only: in every step no message is removed
\* and every message other than the assistant message of the send in
\* flight keeps its position and its value; a user message never changes.
C15_TranscriptAppendOnly ==
    [][ \A i \in 1..Len(messages) :
            /\ i <= Len(messages')
            /\ (~Streaming(i) \/ messages[i].role = "user") => messages'[i] = messages[i] ]_vars

\* C16: the assistant message created by a send that has returned, after a
\* normal end or an error, is not changed by any later step.
C16_ImmutableAfterIdle ==
    [][ \A i \in 1..Len(messages) :
            (messages[i].role = "assistant" /\ messages[i].id # NoId /\ ~Streaming(i))
                => (i <= Len(messages') /\ messages'[i] = messages[i]) ]_vars

\* The positions of the messages that carry the id.
Carrying(msgs, id) == {i \in 1..Len(msgs) : msgs[i].id = id}

\* C17: the id an accepted send allocates is carried by no message already
\* in the transcript, and in every state at most one message carries the
\* id of the send in flight.
C17_IdIsFresh ==
    /\ [](\A h \in InFlight : Cardinality(Carrying(messages, assistantMsgId[h])) <= 1)
    /\ [][ \A h \in Sends :
                (pc[h] = "unused" /\ pc'[h] = "fetch")
                    => Carrying(messages, assistantMsgId'[h]) = {} ]_vars

\* The event a line carries, when it is one of the given type.
IsEvent(line, type) ==
    Trim(line) # <<>> /\ JSONparse(line).ok /\ JSONparse(line).value.type = type

RECURSIVE ContentOf(_)
\* The contents of the content events of the lines, concatenated in order.
ContentOf(lines) ==
    IF lines = <<>> THEN ""
    ELSE (IF IsEvent(Head(lines), "content") THEN JSONparse(Head(lines)).value.content ELSE "")
            \o ContentOf(Tail(lines))

RECURSIVE StartsOf(_)
\* The names of the tool_start events of the lines, in order.
StartsOf(lines) ==
    IF lines = <<>> THEN <<>>
    ELSE (IF IsEvent(Head(lines), "tool_start") THEN <<JSONparse(Head(lines)).value.name>>
          ELSE <<>>) \o StartsOf(Tail(lines))

\* C18: at the end of the stream the content of the send's assistant
\* message is the concatenation, in stream order, of the contents of all
\* content events on valid terminated lines, and its tool calls are one per
\* tool_start event, in stream order.
C18_EventsAppliedInOrder ==
    [][ \A h \in Sends :
            (pc[h] = "read" /\ pc'[h] = "done") =>
                /\ messages'[OwnIdx(h)].content = ContentOf(handed[h])
                /\ NamesOf(messages'[OwnIdx(h)].tools) = StartsOf(handed[h]) ]_vars

\* Call h processes exactly the one line in this step, and the update it
\* queues is applied.
ProcessesOne(h, line) ==
    /\ pc[h] = "read"
    /\ handed'[h] = handed[h] \o <<line>>
    /\ mounted /\ ~renderError

\* C19: tool_start(name, args) appends one tool call with that name, those
\* args, status running and no result at the end of the tool calls of the
\* active message, and changes nothing else; name and args of a tool call
\* never change afterwards, also when it is completed.
C19_ToolStartAppendsRunning ==
    /\ [](\A h \in Sends :
            (pc[h] = "read" /\ ActiveIdx(h) # 0) =>
                \A n \in ToolNames :
                    Reducer(messages, assistantMsgId[h], ToolStartEvent(n)) =
                        [msgs  |-> [messages EXCEPT ![ActiveIdx(h)].tools =
                                        Append(@, [name |-> n, status |-> "running",
                                                   args |-> "args:" \o n, result |-> Absent])],
                         threw |-> FALSE])
    /\ [][ /\ \A h \in Sends : \A n \in ToolNames :
                ProcessesOne(h, <<"s", n>>) =>
                    messages' = [messages EXCEPT ![ActiveIdx(h)].tools =
                                    Append(@, [name |-> n, status |-> "running",
                                               args |-> "args:" \o n, result |-> Absent])]
           /\ \A i \in 1..Len(messages) : \A k \in 1..Len(messages[i].tools) :
                /\ i <= Len(messages') /\ k <= Len(messages'[i].tools)
                /\ messages'[i].tools[k].name = messages[i].tools[k].name
                /\ messages'[i].tools[k].args = messages[i].tools[k].args ]_vars

\* A was started and completed, then B was started.
C19_Witness ==
    /\ handed[1] = <<StartA, ResultA, StartB>>
    /\ messages[2].tools =
            <<[name |-> "A", status |-> "completed", args |-> "args:A", result |-> "result:A"],
              [name |-> "B", status |-> "running", args |-> "args:B", result |-> Absent]>>

\* An id no message carries.
UnusedId == MaxNow + 1

\* The values JSON.parse returns for the lines of the wire alphabet.
Events ==
    {ContentEvent(c) : c \in ContentChars} \cup {ToolStartEvent(n) : n \in ToolNames}
        \cup {ToolResultEvent(n) : n \in ToolNames} \cup {UnknownEvent, NumberValue, NullValue}

\* C20: a content event appends its content to the content of the message
\* carrying the active id and changes nothing else; when no message
\* carries the id, every event returns the transcript as it is and raises
\* no error.
C20_ContentAppendsToActive ==
    /\ [](\A h \in Sends :
            pc[h] = "read" =>
                /\ ActiveIdx(h) # 0 =>
                        \A c \in ContentChars :
                            Reducer(messages, assistantMsgId[h], ContentEvent(c)) =
                                [msgs  |-> [messages EXCEPT ![ActiveIdx(h)].content = @ \o c],
                                 threw |-> FALSE]
                /\ Carrying(messages, UnusedId) = {}
                /\ \A e \in Events :
                        Reducer(messages, UnusedId, e) = [msgs |-> messages, threw |-> FALSE])
    /\ [][ \A h \in Sends : \A c \in ContentChars :
                ProcessesOne(h, <<"c", c>>) =>
                    messages' = [messages EXCEPT ![ActiveIdx(h)].content = @ \o c] ]_vars

\* Two content events were applied to a message that already had a tool call.
C20_Witness ==
    /\ handed[1] = <<StartA, TextA, TextA>>
    /\ messages[2].content = "aa"
    /\ Len(messages[2].tools) = 1

\* The transcript differs from msgs at most in the tool calls of message i,
\* and there at most in status and result of at most one entry.
OneEntryCompleted(msgs, after, i) ==
    /\ Len(after) = Len(msgs)
    /\ \A j \in 1..Len(msgs) : j # i => after[j] = msgs[j]
    /\ after[i].role = msgs[i].role
    /\ after[i].id = msgs[i].id
    /\ after[i].content = msgs[i].content
    /\ Len(after[i].tools) = Len(msgs[i].tools)
    /\ \A k \in 1..Len(msgs[i].tools) :
            /\ after[i].tools[k].name = msgs[i].tools[k].name
            /\ after[i].tools[k].args = msgs[i].tools[k].args
    /\ Cardinality({k \in 1..Len(msgs[i].tools) : after[i].tools[k] # msgs[i].tools[k]}) <= 1

\* C21: a tool_result event never changes the number of tool calls of the
\* active message, the name or args of any entry or the content, and
\* changes status and result of at most one entry.
C21_ToolResultFrame ==
    /\ [](\A h \in Sends :
            (pc[h] = "read" /\ ActiveIdx(h) # 0) =>
                \A n \in ToolNames :
                    LET out == Reducer(messages, assistantMsgId[h], ToolResultEvent(n))
                    IN  ~out.threw /\ OneEntryCompleted(messages, out.msgs, ActiveIdx(h)))
    /\ [][ \A h \in Sends : \A n \in ToolNames :
                ProcessesOne(h, <<"r", n>>) =>
                    OneEntryCompleted(messages, messages', ActiveIdx(h)) ]_vars

\* A result for A was processed while two tool calls A were running and
\* the message had content.
C21_Witness ==
    /\ handed[1] = <<TextA, StartA, StartA, ResultA>>
    /\ messages[2].content = "a"
    /\ StatusesOf(messages[2].tools) = <<"running", "completed">>

\* Call h goes from unused to fetch in this step.
Begins(h) == pc[h] = "unused" /\ pc'[h] = "fetch"

\* C22: the transcript never gets shorter; the step that accepts a send
\* appends the user message and then an empty placeholder without tool
\* calls; every other step keeps the length, except the step in which a
\* send returns through its error path, which may append one message, the
\* error message.
C22_TranscriptGrowth ==
    [][ /\ Len(messages') >= Len(messages)
        /\ \A h \in Sends :
                Begins(h) =>
                    messages' = messages \o <<UserMsg(Str(input)),
                                               [role |-> "assistant", content |-> "",
                                                id |-> assistantMsgId'[h], tools |-> <<>>]>>
        /\ (\A h \in Sends : ~Begins(h)) =>
                \/ Len(messages') = Len(messages)
                \/ /\ \E t \in ErrorTexts : messages' = Append(messages, ErrorMsg(t))
                   /\ \E h \in InFlight : pc'[h] = "failed" ]_vars

\* The first send received content and then failed, with the error
\* message appended; the second send has appended its two messages.
C22_Witness ==
    /\ pc = <<"failed", "read">>
    /\ Len(messages) = 5
    /\ messages[2].content # ""
    /\ messages[3] = ErrorMsg(NetworkError)

\* Message i is an error message appended by a catch block.
IsErrorMsg(i) == \E t \in ErrorTexts : messages[i] = ErrorMsg(t)

\* C23: the payload of a send made after a failed send has, as assistant
\* entries in transcript order, the placeholder of the failed send with the
\* content it had received and the error message; the payload has one
\* entry for every message that precedes the new placeholder.
C23_PayloadKeepsFailedSend ==
    \A h \in Sends :
        pc[h] = "fetch" =>
            /\ Len(payload[h]) = Len(messages) - 1
            /\ \A i \in 1..(Len(messages) - 1) :
                    /\ payload[h][i].role = messages[i].role
                    /\ IsErrorMsg(i) =>
                            /\ i >= 3
                            /\ payload[h][i] = [role |-> "assistant",
                                                content |-> messages[i].content]
                            /\ messages[i - 1].id # NoId
                            /\ payload[h][i - 1] = [role |-> "assistant",
                                                    content |-> messages[i - 1].content]

\* The second send is waiting for its response after a first send that
\* failed with an empty placeholder.
C23_Witness ==
    /\ pc = <<"failed", "fetch">>
    /\ messages[2] = AssistantPlaceholder(0)
    /\ messages[3] = ErrorMsg(FetchFailed)
    /\ Len(payload[2]) = 4

\* C24: when a request made through apiClient is answered with status 401
\* the token is removed, getToken returns none and the request is rejected
\* to its caller; answered otherwise, the token is left as it is.  The
\* responses of the chat request, status 401 included, leave the token as
\* it is.
C24_TokenRemovedOn401 ==
    [][ /\ (apiPc = "pending" /\ apiPc' # "pending") =>
                IF apiStatus' = 401
                    THEN GetToken' = NoToken /\ apiPc' = "rejected"
                    ELSE token' = token
        /\ \A h \in Sends :
                (pc[h] = "fetch" /\ pc'[h] \in {"read", "failed"}) => token' = token
        /\ \A h \in Sends :
                (pc[h] = "read" /\ pc'[h] \in {"done", "failed"}) => token' = token ]_vars

\* A request through apiClient made with a stored token was answered 401:
\* the request is rejected, the token is gone and the page was reloaded.
C24_Witness ==
    /\ apiStatus = 401
    /\ apiPc = "rejected"
    /\ GetToken = NoToken
    /\ ~mounted

====
